---- MODULE Spec2Model ----
(***************************************************************************)
(* A model of the porkbun dynamic-DNS updater: cmd/porkbun/main.go (the    *)
(* update decision procedure doDynDNSUpdate, recordExists, dotjoin, main),  *)
(* pkg/porkbun (Client, doRequest, Ping, EditAllA, RetrieveAll) and         *)
(* pkg/api (Record, the request and response types).                        *)
(*                                                                         *)
(* Go strings are TLA+ strings; s[i] is SubSeq(s, i+1, i+1).               *)
(***************************************************************************)
EXTENDS Integers, Sequences, FiniteSets, TLC

(***************************************************************************)
(* Bounds of the model.                                                    *)
(***************************************************************************)
\* Number of successive process runs (invocations of main) in one behaviour.
MaxRuns == 2
\* Longest record slice handed to recordExists in SpecRecordExists.
MaxRecords == 2
\* Most records the provider holds once a caller of CreateA has added some.
MaxProviderRecords == 4

(***************************************************************************)
(* Program constants.                                                      *)
(***************************************************************************)
\* http.StatusOK, the only status doRequest accepts.
StatusOK == 200
\* PorkbunApiV3Ipv4Url: NewClient(config, true) in main.
PorkbunApiV3Ipv4Url == "https://api-ipv4.porkbun.com/api/json/v3/"

(***************************************************************************)
(* net.ParseIP and IP.To4, as the Go standard library computes them        *)
(* (netip.ParseAddr: parseIPv4Fields, parseIPv6).                           *)
(***************************************************************************)
At(s, i) == SubSeq(s, i + 1, i + 1)          \* s[i], 0-based
From(s, i) == SubSeq(s, i + 1, Len(s))       \* s[i:]

Digits == <<"0", "1", "2", "3", "4", "5", "6", "7", "8", "9">>
HexLower == <<"a", "b", "c", "d", "e", "f">>
HexUpper == <<"A", "B", "C", "D", "E", "F">>

IsDigit(c) == \E k \in 1..10 : Digits[k] = c
DigitVal(c) == (CHOOSE k \in 1..10 : Digits[k] = c) - 1
IsHex(c) ==
    \/ IsDigit(c)
    \/ \E k \in 1..6 : HexLower[k] = c \/ HexUpper[k] = c
HexVal(c) ==
    IF IsDigit(c) THEN DigitVal(c)
    ELSE 9 + (CHOOSE k \in 1..6 : HexLower[k] = c \/ HexUpper[k] = c)

Contains(s, c) == \E k \in 0..(Len(s) - 1) : At(s, k) = c

\* parseIPv4Fields(s): <<ok, fields>>; the loop over i with (val, pos, digLen).
RECURSIVE v4Loop(_, _, _, _, _, _)
v4Loop(s, i, val, pos, digLen, fields) ==
    IF i >= Len(s) THEN
        IF pos < 3 THEN <<FALSE, <<>>>>
        ELSE <<TRUE, Append(fields, val)>>
    ELSE
        LET c == At(s, i) IN
        IF IsDigit(c) THEN
            IF digLen = 1 /\ val = 0 THEN <<FALSE, <<>>>>
            ELSE
                LET v == val * 10 + DigitVal(c) IN
                IF v > 255 THEN <<FALSE, <<>>>>
                ELSE v4Loop(s, i + 1, v, pos, digLen + 1, fields)
        ELSE IF c = "." THEN
            IF i = 0 \/ i = Len(s) - 1 \/ At(s, i - 1) = "." THEN <<FALSE, <<>>>>
            ELSE IF pos = 3 THEN <<FALSE, <<>>>>
            ELSE v4Loop(s, i + 1, 0, pos + 1, 0, Append(fields, val))
        ELSE <<FALSE, <<>>>>

parseIPv4Fields(s) == v4Loop(s, 0, 0, 0, 0, <<>>)

\* The 16-byte form of an IPv4 address (v4InV6Prefix followed by the 4 octets).
As16(fields) == <<0, 0, 0, 0, 0, 0, 0, 0, 0, 0, 255, 255>> \o fields

\* The inner hex-number loop of parseIPv6: <<ok, off, acc>>.
RECURSIVE hexLoop(_, _, _)
hexLoop(s, off, acc) ==
    IF off >= Len(s) \/ ~IsHex(At(s, off)) THEN <<TRUE, off, acc>>
    ELSE
        LET a == acc * 16 + HexVal(At(s, off)) IN
        IF off > 3 \/ a > 65535 THEN <<FALSE, off, a>>
        ELSE hexLoop(s, off + 1, a)

Zeros(n) == [k \in 1..n |-> 0]

\* "If didn't parse enough, expand ellipsis": ip holds the i bytes parsed so far.
expandEllipsis(ip, i, ellipsis) ==
    IF i < 16 THEN
        IF ellipsis < 0 THEN <<FALSE, <<>>>>
        ELSE <<TRUE, SubSeq(ip, 1, ellipsis) \o Zeros(16 - i)
                       \o SubSeq(ip, ellipsis + 1, i)>>
    ELSE IF ellipsis >= 0 THEN <<FALSE, <<>>>>
    ELSE <<TRUE, ip>>

\* The outer loop of parseIPv6 ("for i < 16"): s is the rest of the input,
\* ip the bytes saved so far (Len(ip) = i).
RECURSIVE v6Loop(_, _, _)
v6Loop(s, ip, ellipsis) ==
    LET i == Len(ip) IN
    IF i >= 16 THEN
        IF Len(s) # 0 THEN <<FALSE, <<>>>> ELSE expandEllipsis(ip, i, ellipsis)
    ELSE
        LET h == hexLoop(s, 0, 0)
            off == h[2]
            acc == h[3]
        IN
        IF ~h[1] \/ off = 0 THEN <<FALSE, <<>>>>
        ELSE IF off < Len(s) /\ At(s, off) = "." THEN
            IF ellipsis < 0 /\ i # 12 THEN <<FALSE, <<>>>>
            ELSE IF i + 4 > 16 THEN <<FALSE, <<>>>>
            ELSE
                LET f == parseIPv4Fields(s) IN
                IF ~f[1] THEN <<FALSE, <<>>>>
                ELSE expandEllipsis(ip \o f[2], i + 4, ellipsis)
        ELSE
            LET ip2 == ip \o <<acc \div 256, acc % 256>>
                s2 == From(s, off)
            IN
            IF Len(s2) = 0 THEN expandEllipsis(ip2, i + 2, ellipsis)
            ELSE IF At(s2, 0) # ":" THEN <<FALSE, <<>>>>
            ELSE IF Len(s2) = 1 THEN <<FALSE, <<>>>>
            ELSE
                LET s3 == From(s2, 1) IN
                IF At(s3, 0) = ":" THEN
                    IF ellipsis >= 0 THEN <<FALSE, <<>>>>
                    ELSE IF Len(s3) = 1 THEN expandEllipsis(ip2, i + 2, i + 2)
                    ELSE v6Loop(From(s3, 1), ip2, i + 2)
                ELSE v6Loop(s3, ip2, ellipsis)

parseIPv6(s) ==
    IF Contains(s, "%") THEN <<FALSE, <<>>>>       \* parseIP rejects zones
    ELSE IF Len(s) >= 2 /\ At(s, 0) = ":" /\ At(s, 1) = ":" THEN
        IF Len(s) = 2 THEN <<TRUE, Zeros(16)>>
        ELSE v6Loop(From(s, 2), <<>>, 0)
    ELSE v6Loop(s, <<>>, -1)

\* The first '.' or ':' of s decides the parser (netip.ParseAddr).
RECURSIVE firstSep(_, _)
firstSep(s, i) ==
    IF i >= Len(s) THEN ""
    ELSE IF At(s, i) = "." \/ At(s, i) = ":" \/ At(s, i) = "%" THEN At(s, i)
    ELSE firstSep(s, i + 1)

\* net.ParseIP(s): <<ok, 16 bytes>>; ok = FALSE is Go's nil.
ParseIP(s) ==
    LET c == firstSep(s, 0) IN
    IF c = "." THEN
        LET f == parseIPv4Fields(s) IN
        IF f[1] THEN <<TRUE, As16(f[2])>> ELSE <<FALSE, <<>>>>
    ELSE IF c = ":" THEN parseIPv6(s)
    ELSE <<FALSE, <<>>>>

\* IP.To4() # nil for a 16-byte ip: the v4InV6Prefix test.
To4NotNil(ip) ==
    /\ Len(ip) = 16
    /\ \A k \in 1..10 : ip[k] = 0
    /\ ip[11] = 255
    /\ ip[12] = 255


(***************************************************************************)
(* pkg/api: Record and the response bodies.                                 *)
(***************************************************************************)
Rec(id, name, typ, content) ==
    [ID |-> id, Name |-> name, Type |-> typ, Content |-> content,
     TTL |-> "600", Prio |-> "0", Notes |-> ""]

\* The status strings the provider puts in the body's status field.
StatusSuccess == "SUCCESS"
StatusError == "ERROR"

\* A body {"status":"ERROR","message":...} decoded into PingResponse,
\* RecordsResponse or EditResponse: the operation's own fields stay zero.
ErrorBody ==
    [Status |-> StatusError, Message |-> "failed", YourIP |-> "", Records |-> <<>>]
PingBody(ip) ==
    [Status |-> StatusSuccess, Message |-> "", YourIP |-> ip, Records |-> <<>>]
RecordsBody(rs) ==
    [Status |-> StatusSuccess, Message |-> "", YourIP |-> "", Records |-> rs]
EditBody ==
    [Status |-> StatusSuccess, Message |-> "", YourIP |-> "", Records |-> <<>>]

(***************************************************************************)
(* The configuration (flags and ~/.porkbungo) and the environment.          *)
(***************************************************************************)
Domain == "example.com"
Keys == [SecretAPIKey |-> "sk1", APIKey |-> "pk1"]
CheckURLValue == "http://www.example.com/health"

Subdomains == {"", "www"}
\* What the provider's ping can report as the caller's address.
IPStrings == {"1.2.3.4", "5.6.7.8", "300.1.1.1", "::1", "::ffff:1.2.3.4"}

\* How a POST to the provider ends: no response at all (transport failure or
\* deadline), a non-200 status, a 200 whose body is not JSON, a 200 whose
\* body reports an error, a 200 whose body reports success.
Kinds == {"transport", "status500", "badjson", "error", "success"}

\* How the GET of the check URL ends: the request cannot be built, no
\* response (transport failure or the 5 s deadline), or a response with a
\* status; a 301 comes with a Location header that parses, with none, or with
\* one that does not parse.
CheckKinds ==
    {"badurl", "transport", "200", "301", "301-noloc", "301-badloc", "404", "500"}

\* What net.LookupHost can return for the target name.
DNSResults ==
    { [err |-> TRUE, addrs |-> <<>>],
      [err |-> FALSE, addrs |-> <<"5.6.7.8">>],
      [err |-> FALSE, addrs |-> <<"9.9.9.9", "1.2.3.4">>],
      [err |-> FALSE, addrs |-> <<"::1">>] }

\* Record sets the provider can hold for the domain.
ProviderSets ==
    { <<>>,
      <<Rec("1", "www.example.com", "A", "5.6.7.8")>>,
      <<Rec("1", "example.com", "A", "5.6.7.8"),
        Rec("2", "www.example.com", "AAAA", "::1")>>,
      <<Rec("1", "example.com", "A", "1.2.3.4"),
        Rec("2", "www.example.com", "A", "1.2.3.4")>>,
      <<Rec("1", "www", "A", "1.2.3.4"),
        Rec("2", "example.com", "AAAA", "1.2.3.4"),
        Rec("3", "example.com", "A", "9.9.9.9")>> }

VARIABLES
    \* flags and configuration, fixed for the behaviour
    printRecords, dyndns, ddSubdomain, ddCheckURL,
    \* environment
    checkKind, pingKind, pubIP, retrKind, editKind, dns, provider,
    \* the run in progress
    run, pc, records, currentIP, calls, exit, prevCalls,
    \* SpecRecordExists: the arguments and the result of one recordExists call
    reIn, reOut

cfgVars == <<printRecords, dyndns, ddSubdomain, ddCheckURL>>
kindVars == <<checkKind, pingKind, pubIP, retrKind, editKind>>
envVars == <<kindVars, dns, provider>>
runVars == <<run, pc, records, currentIP, calls, exit, prevCalls>>
reVars == <<reIn, reOut>>
vars == <<cfgVars, envVars, runVars, reVars>>

(***************************************************************************)
(* cmd/porkbun/main.go: recordExists, dotjoin.                              *)
(***************************************************************************)
\* recordExists with the type comparison left out.
RECURSIVE recordExistsNoType(_, _, _, _)
recordExistsNoType(rs, typ, name, content) ==
    IF rs = <<>> THEN FALSE
    ELSE
        LET r == Head(rs) IN
        IF r.Name = name /\ r.Content = content THEN TRUE
        ELSE recordExistsNoType(Tail(rs), typ, name, content)

\* recordExists leaving the loop at the first record of another type.
RECURSIVE recordExistsBreak(_, _, _, _)
recordExistsBreak(rs, typ, name, content) ==
    IF rs = <<>> THEN FALSE
    ELSE
        LET r == Head(rs) IN
        IF r.Type # typ THEN FALSE
        ELSE IF r.Name = name /\ r.Content = content THEN TRUE
        ELSE recordExistsBreak(Tail(rs), typ, name, content)

RECURSIVE recordExists(_, _, _, _)
recordExists(rs, typ, name, content) ==
    IF rs = <<>> THEN FALSE
    ELSE
        LET r == Head(rs) IN
        IF r.Type # typ THEN recordExists(Tail(rs), typ, name, content)
        ELSE IF r.Name = name /\ r.Content = content THEN TRUE
        ELSE recordExists(Tail(rs), typ, name, content)

\* dotjoin returning the bare subdomain label.
dotjoinBare(subdom, domain) ==
    IF subdom = "" THEN domain ELSE subdom

dotjoin(subdom, domain) ==
    IF subdom = "" THEN domain ELSE subdom \o "." \o domain

(***************************************************************************)
(* pkg/porkbun: Client.url, doRequest and the operations.                   *)
(***************************************************************************)
\* url.JoinPath(c.BaseURL, elem...) for non-empty elements without slashes at
\* their ends: BaseURL ends with "/".
RECURSIVE joinElems(_)
joinElems(elem) ==
    IF Len(elem) = 0 THEN ""
    ELSE IF Len(elem) = 1 THEN elem[1]
    ELSE elem[1] \o "/" \o joinElems(Tail(elem))

url(elem) == PorkbunApiV3Ipv4Url \o joinElems(elem)

\* The HTTP exchange c.client.Do performs, by kind.
HTTPResponse(kind, body) ==
    CASE kind = "transport" ->
           [err |-> TRUE, StatusCode |-> 0, decodable |-> FALSE, body |-> ErrorBody]
      [] kind = "status500" ->
           [err |-> FALSE, StatusCode |-> 500, decodable |-> TRUE, body |-> ErrorBody]
      [] kind = "badjson" ->
           [err |-> FALSE, StatusCode |-> StatusOK, decodable |-> FALSE, body |-> ErrorBody]
      [] kind = "error" ->
           [err |-> FALSE, StatusCode |-> StatusOK, decodable |-> TRUE, body |-> ErrorBody]
      [] OTHER ->
           [err |-> FALSE, StatusCode |-> StatusOK, decodable |-> TRUE, body |-> body]

\* doRequest without the StatusCode test.
doRequestIgnoreStatus(response) ==
    IF response.err THEN [err |-> "POST failed", resp |-> ErrorBody]
    ELSE IF ~response.decodable THEN
        [err |-> "cannot unmarshal response", resp |-> ErrorBody]
    ELSE [err |-> "", resp |-> response.body]

\* doRequest: (resp, err) from the exchange; err = "" is Go's nil error.
doRequest(response) ==
    IF response.err THEN [err |-> "POST failed", resp |-> ErrorBody]
    ELSE IF response.StatusCode # StatusOK THEN
        [err |-> "response status", resp |-> ErrorBody]
    ELSE IF ~response.decodable THEN
        [err |-> "cannot unmarshal response", resp |-> ErrorBody]
    ELSE [err |-> "", resp |-> response.body]

\* The request each operation sends: its URL and the content of its body.
PingURL == url(<<"ping">>)
RetrieveAllURL == url(<<"dns/retrieve", Domain>>)
\* EditAllA always using the URL of the root domain.
EditAllAURLNoSub(subdomain) == url(<<"dns/editByNameType", Domain, "A">>)
EditAllAURL(subdomain) ==
    IF subdomain = "" THEN url(<<"dns/editByNameType", Domain, "A">>)
    ELSE url(<<"dns/editByNameType", Domain, "A", subdomain>>)
EditAllAReq(ipv4Address) ==
    [Keys |-> Keys, Name |-> "", Type |-> "", Content |-> ipv4Address,
     TTL |-> "", Prio |-> ""]

CreateAURL == url(<<"dns/create">>)
CreateAReq(subdomain, ipv4Address) ==
    [Keys |-> Keys, Name |-> subdomain, Type |-> "A", Content |-> ipv4Address,
     TTL |-> "", Prio |-> ""]

\* One entry of the run's call log.
Call(op, target, content, ok, result) ==
    [op |-> op, url |-> target, content |-> content, ok |-> ok, result |-> result]

HasCall(cs, op) == \E i \in 1..Len(cs) : cs[i].op = op
CountCalls(cs, op) == Cardinality({i \in 1..Len(cs) : cs[i].op = op})
TheCall(cs, op) == cs[CHOOSE i \in 1..Len(cs) : cs[i].op = op]

(***************************************************************************)
(* The provider: editRecordsByNameAndType overwrites the content of every   *)
(* record of the given name and type.                                       *)
(***************************************************************************)
ProviderEdit(rs, name, typ, content) ==
    [i \in 1..Len(rs) |->
        IF rs[i].Type = typ /\ rs[i].Name = name
        THEN [rs[i] EXCEPT !.Content = content]
        ELSE rs[i]]

\* createRecord adds one record under the fully-qualified name.
RecordIDs == <<"1", "2", "3", "4", "5", "6", "7", "8">>
ProviderCreate(rs, req) ==
    Append(rs, Rec(RecordIDs[Len(rs) + 1],
                   IF req.Name = "" THEN Domain ELSE req.Name \o "." \o Domain,
                   req.Type, req.Content))

ProviderMatches(rs, name, typ) ==
    \E i \in 1..Len(rs) : rs[i].Type = typ /\ rs[i].Name = name

(***************************************************************************)
(* Init: a fresh process with its flags and configuration read, in an       *)
(* environment that stays as it is except for what a write does to it.      *)
(* An environment value that the flags keep the run from ever consulting is *)
(* fixed to one value.                                                      *)
(***************************************************************************)
RunInit ==
    /\ run = 1
    /\ pc = "main"
    /\ records = <<>>
    /\ currentIP = ""
    /\ calls = <<>>
    /\ exit = ""
    /\ prevCalls = <<>>

REIdle ==
    /\ reIn = [records |-> <<>>, typ |-> "", name |-> "", content |-> ""]
    /\ reOut = [done |-> FALSE, value |-> FALSE]

Init ==
    /\ printRecords \in {"", "all"}
    /\ dyndns \in BOOLEAN
    /\ ddSubdomain \in Subdomains
    /\ ddCheckURL \in {"", CheckURLValue}
    /\ checkKind \in CheckKinds
    /\ pingKind \in Kinds
    /\ pubIP \in IPStrings
    /\ retrKind \in Kinds
    /\ editKind \in Kinds
    /\ dns \in DNSResults
    /\ provider \in ProviderSets
    /\ (ddCheckURL = "" \/ ~dyndns) => checkKind = "transport"
    /\ printRecords = "" => retrKind = "success"
    /\ pingKind # "success" => pubIP = "1.2.3.4"
    /\ ~dyndns =>
          /\ ddSubdomain = "" /\ ddCheckURL = ""
          /\ pingKind = "success" /\ pubIP = "1.2.3.4" /\ editKind = "success"
          /\ dns = [err |-> TRUE, addrs |-> <<>>]
    /\ RunInit
    /\ REIdle

(***************************************************************************)
(* main: flag.Parse, ReadClientConfig, NewClient, then doPrintRecords when  *)
(* -print is set (its RetrieveAll call; log.Fatalf when that fails), then   *)
(* the dispatch to doDynDNSUpdate up to its first blocking call.            *)
(***************************************************************************)
Fatal(reason) ==
    /\ pc' = "done"
    /\ exit' = reason

Main ==
    /\ pc = "main"
    /\ LET r == doRequest(HTTPResponse(retrKind, RecordsBody(provider)))
           printed == printRecords # ""
           c == Call("retrieve", RetrieveAllURL, "", r.err = "", <<>>)
       IN
       /\ calls' = IF printed THEN Append(calls, c) ELSE calls
       /\ IF printed /\ r.err # "" THEN
              /\ Fatal("fatal-retrieve")
              /\ records' = records
          ELSE
              /\ records' = IF printed THEN r.resp.Records ELSE <<>>
              /\ pc' = IF ~dyndns THEN "done"
                       ELSE IF ddCheckURL # "" THEN "check"
                       ELSE "ping"
              /\ exit' = IF ~dyndns THEN "no-dyndns" ELSE exit
    /\ UNCHANGED <<cfgVars, envVars, reVars, run, currentIP, prevCalls>>

(***************************************************************************)
(* doDynDNSUpdate, lines 68-89: the GET of the check URL, redirects not     *)
(* followed; a nil error of client.Do ends the run as a no-op.              *)
(***************************************************************************)
\* The response of the exchange, when there is one: its status and, for a
\* redirect, the state of its Location header.
CheckArrived(kind) == kind \notin {"badurl", "transport"}
CheckStatus(kind) == SubSeq(kind, 1, 3)
CheckLocation(kind) ==
    IF kind = "301-badloc" THEN "unparsable"
    ELSE IF kind = "301-noloc" THEN ""
    ELSE "parsable"
RedirectStatuses == {"301", "302", "303", "307", "308"}

\* client.Do(req) with CheckRedirect returning http.ErrUseLastResponse:
\* err = nil when a response arrived, except that for a redirect status
\* net/http parses a non-empty Location header before it consults
\* CheckRedirect and returns an error when that fails.
CheckResponded(kind) ==
    /\ CheckArrived(kind)
    /\ ~(/\ CheckStatus(kind) \in RedirectStatuses
         /\ CheckLocation(kind) = "unparsable")

CheckURL ==
    /\ pc = "check"
    /\ IF checkKind = "badurl" THEN
           /\ Fatal("fatal-check-request")
           /\ calls' = calls
       ELSE
           /\ calls' = Append(calls,
                 Call("check", ddCheckURL, "", CheckResponded(checkKind), <<>>))
           /\ IF CheckResponded(checkKind) THEN
                  /\ pc' = "done"
                  /\ exit' = "check-ok"
              ELSE
                  /\ pc' = "ping"
                  /\ exit' = exit
    /\ UNCHANGED <<cfgVars, envVars, reVars, run, records, currentIP, prevCalls>>

(***************************************************************************)
(* doDynDNSUpdate, lines 92-97: client.Ping.                                *)
(***************************************************************************)
Ping ==
    /\ pc = "ping"
    /\ LET r == doRequest(HTTPResponse(pingKind, PingBody(pubIP))) IN
       /\ calls' = Append(calls,
             Call("ping", PingURL, "", r.err = "", <<r.resp.YourIP>>))
       /\ IF r.err # "" THEN
              /\ Fatal("fatal-ping")
              /\ currentIP' = currentIP
          ELSE
              /\ currentIP' = r.resp.YourIP
              /\ pc' = "lookup"
              /\ exit' = exit
    /\ UNCHANGED <<cfgVars, envVars, reVars, run, records, prevCalls>>

(***************************************************************************)
(* doDynDNSUpdate, lines 102-127: net.LookupHost of the target name, the    *)
(* comparison with the resolved addresses, the known-records comparison and *)
(* the IPv4 validation, up to the EditAllA call.                            *)
(***************************************************************************)
\* The comparison made with the first resolved address only.
InAddrsFirst(addrs, ip) == Len(addrs) > 0 /\ addrs[1] = ip
InAddrs(addrs, ip) == \E i \in 1..Len(addrs) : addrs[i] = ip

ValidIPv4(s) ==
    LET ip == ParseIP(s) IN ip[1] /\ To4NotNil(ip[2])

Lookup ==
    /\ pc = "lookup"
    /\ LET domain == dotjoin(ddSubdomain, Domain) IN
       /\ calls' = Append(calls,
             Call("lookup", domain, "", ~dns.err, dns.addrs))
       /\ IF dns.err THEN Fatal("fatal-lookup")
          ELSE IF InAddrs(dns.addrs, currentIP) THEN
              /\ pc' = "done"
              /\ exit' = "dns-match"
          ELSE IF recordExists(records, "A", domain, currentIP) THEN
              /\ pc' = "done"
              /\ exit' = "record-exists"
          ELSE IF ~ValidIPv4(currentIP) THEN Fatal("fatal-ip")
          ELSE
              /\ pc' = "write"
              /\ exit' = exit
    /\ UNCHANGED <<cfgVars, envVars, reVars, run, records, currentIP, prevCalls>>

(***************************************************************************)
(* doDynDNSUpdate, lines 128-132: client.EditAllA.  The provider applies    *)
(* the edit when it answers with success; the resolver then serves the new  *)
(* address at once or keeps serving what it has cached.                     *)
(***************************************************************************)
\* Where the run goes when EditAllA has returned: log.Fatalf on an error, the
\* end of doDynDNSUpdate otherwise.
AfterWriteRetry(err) == IF err # "" THEN "write" ELSE "done"
AfterWrite(err) == "done"

EditAllA ==
    /\ pc = "write"
    /\ LET r == doRequest(HTTPResponse(editKind, EditBody))
           name == dotjoin(ddSubdomain, Domain)
           applied == editKind = "success" /\ ProviderMatches(provider, name, "A")
       IN
       /\ calls' = Append(calls,
             Call("write", EditAllAURL(ddSubdomain),
                  EditAllAReq(currentIP).Content, r.err = "", <<>>))
       /\ pc' = AfterWrite(r.err)
       /\ exit' = IF r.err # "" THEN "fatal-write" ELSE "updated"
       /\ provider' = IF applied
                      THEN ProviderEdit(provider, name, "A", currentIP)
                      ELSE provider
       /\ \/ dns' = dns
          \/ /\ applied
             /\ dns' = [err |-> FALSE, addrs |-> <<currentIP>>]
    /\ UNCHANGED <<cfgVars, kindVars, reVars, run, records, currentIP, prevCalls>>

(***************************************************************************)
(* The process has ended; it is started again (cron), with nothing kept.    *)
(***************************************************************************)
NextRun ==
    /\ pc = "done"
    /\ run < MaxRuns
    /\ run' = run + 1
    /\ pc' = "main"
    /\ records' = <<>>
    /\ currentIP' = ""
    /\ prevCalls' = calls
    /\ calls' = <<>>
    /\ exit' = ""
    /\ UNCHANGED <<cfgVars, envVars, reVars>>

Next ==
    \/ Main
    \/ CheckURL
    \/ Ping
    \/ Lookup
    \/ EditAllA
    \/ NextRun

Spec == Init /\ [][Next]_vars

(***************************************************************************)
(* Client.CreateA.  main never calls it: it is the library's operation for  *)
(* a caller that sets up the A record the update procedure asks for when    *)
(* the lookup fails ("Please set up an A record before running in -dyndns   *)
(* mode").  SpecClient is the program together with such a caller acting    *)
(* after a run that ended there; the resolver then serves the new address   *)
(* at once or not yet.                                                      *)
(***************************************************************************)
CreateA ==
    /\ pc = "done"
    /\ exit = "fatal-lookup"
    /\ ~HasCall(calls, "create")
    /\ Len(provider) < MaxProviderRecords
    /\ \E subdomain \in Subdomains, ipv4Address \in {"1.2.3.4", "5.6.7.8"},
          kind \in Kinds :
          LET req == CreateAReq(subdomain, ipv4Address)
              r == doRequest(HTTPResponse(kind, EditBody))
              applied == kind = "success"
          IN
          /\ calls' = Append(calls,
                Call("create", CreateAURL, req.Content, r.err = "", <<>>))
          /\ provider' = IF applied THEN ProviderCreate(provider, req)
                         ELSE provider
          /\ \/ dns' = dns
             \/ /\ applied
                /\ subdomain = ddSubdomain
                /\ dns' = [err |-> FALSE, addrs |-> <<ipv4Address>>]
    /\ UNCHANGED <<cfgVars, kindVars, reVars, run, pc, records, currentIP,
                   exit, prevCalls>>

NextClient ==
    \/ Next
    \/ CreateA

SpecClient == Init /\ [][NextClient]_vars

(***************************************************************************)
(* SpecRecordExists: recordExists applied once to arguments drawn from      *)
(* bounded sets, in a process that does nothing else.                       *)
(***************************************************************************)
RETypes == {"A", "a", "AAAA"}
RENames == {"www.example.com", "WWW.example.com", "www"}
REContents == {"1.2.3.4", "01.2.3.4"}
RERecords ==
    {Rec("1", n, t, c) : n \in RENames, t \in RETypes, c \in REContents}

RECURSIVE SeqsUpTo(_, _)
SeqsUpTo(S, n) ==
    IF n = 0 THEN {<<>>}
    ELSE LET shorter == SeqsUpTo(S, n - 1) IN
         shorter \cup {Append(q, e) : q \in {t \in shorter : Len(t) = n - 1}, e \in S}

InitRE ==
    /\ printRecords = "" /\ dyndns = FALSE /\ ddSubdomain = "" /\ ddCheckURL = ""
    /\ checkKind = "transport" /\ pingKind = "success" /\ pubIP = "1.2.3.4"
    /\ retrKind = "success" /\ editKind = "success"
    /\ dns = [err |-> TRUE, addrs |-> <<>>]
    /\ provider = <<>>
    /\ RunInit
    /\ reIn \in [records : SeqsUpTo(RERecords, MaxRecords), typ : RETypes,
                 name : RENames, content : REContents]
    /\ reOut = [done |-> FALSE, value |-> FALSE]

CallRecordExists ==
    /\ ~reOut.done
    /\ reOut' = [done |-> TRUE,
                 value |-> recordExists(reIn.records, reIn.typ, reIn.name,
                                        reIn.content)]
    /\ UNCHANGED <<cfgVars, envVars, runVars, reIn>>

NextRE == CallRecordExists

SpecRecordExists == InitRE /\ [][NextRE]_vars

(***************************************************************************)
(* Vocabulary of the properties.                                            *)
(***************************************************************************)
\* A dotted quad: four decimal numbers 0..255, without leading zeros,
\* separated by dots.
RECURSIVE SplitDots(_, _, _)
SplitDots(s, i, cur) ==
    IF i >= Len(s) THEN <<cur>>
    ELSE IF At(s, i) = "." THEN <<cur>> \o SplitDots(s, i + 1, "")
    ELSE SplitDots(s, i + 1, cur \o At(s, i))

RECURSIVE DecValue(_)
DecValue(t) ==
    IF Len(t) = 0 THEN 0
    ELSE 10 * DecValue(SubSeq(t, 1, Len(t) - 1)) + DigitVal(At(t, Len(t) - 1))

IsOctet(t) ==
    /\ Len(t) \in 1..3
    /\ \A k \in 0..(Len(t) - 1) : IsDigit(At(t, k))
    /\ (Len(t) > 1 => At(t, 0) # "0")
    /\ DecValue(t) <= 255

IsDottedQuad(s) ==
    LET parts == SplitDots(s, 0, "") IN
    /\ Len(parts) = 4
    /\ \A k \in 1..4 : IsOctet(parts[k])

\* The fully-qualified target name of the run.
TargetName ==
    IF ddSubdomain = "" THEN "example.com" ELSE ddSubdomain \o ".example.com"

\* Some record of rs is an A record of the target name with this content.
HoldsARecord(rs, content) ==
    \E i \in 1..Len(rs) :
        rs[i].Type = "A" /\ rs[i].Name = TargetName /\ rs[i].Content = content

Resolved(cs, ip) ==
    \E i \in 1..Len(TheCall(cs, "lookup").result) :
        TheCall(cs, "lookup").result[i] = ip

\* The place of each call in the order of the procedure.
Rank(op) ==
    CASE op = "retrieve" -> 0
      [] op = "check" -> 1
      [] op = "ping" -> 2
      [] op = "lookup" -> 3
      [] op = "write" -> 4
      [] op = "create" -> 5

(***************************************************************************)
(* Properties.                                                              *)
(***************************************************************************)

\* C1: when a check URL is configured and its GET returns a response, of any
\* HTTP status, the run makes no ping, no local DNS lookup and no write, and
\* ends as a no-op.
C1_ReachableCheckIsNoOp ==
    (/\ dyndns /\ ddCheckURL # ""
     /\ checkKind \in {"200", "301", "301-noloc", "301-badloc", "404", "500"}) =>
        /\ ~HasCall(calls, "ping")
        /\ ~HasCall(calls, "lookup")
        /\ ~HasCall(calls, "write")
        /\ (HasCall(calls, "check") => pc = "done" /\ exit = "check-ok")

\* C2: a finished run in which the check did not short-circuit, ping and the
\* lookup succeeded, the public IP is a dotted quad that none of the resolved
\* addresses equals and that no A record of the target name in the snapshot
\* holds, made exactly one write call: the edit by name and type A for the
\* configured domain and subdomain (no subdomain element when it is empty)
\* with the public IP as content.
C2_ExactlyOneCorrectWrite ==
    (/\ pc = "done"
     /\ HasCall(calls, "ping") /\ TheCall(calls, "ping").ok
     /\ HasCall(calls, "lookup") /\ TheCall(calls, "lookup").ok
     /\ IsDottedQuad(TheCall(calls, "ping").result[1])
     /\ ~Resolved(calls, TheCall(calls, "ping").result[1])
     /\ ~HoldsARecord(records, TheCall(calls, "ping").result[1]))
    =>
        /\ CountCalls(calls, "write") = 1
        /\ TheCall(calls, "write").url =
              "https://api-ipv4.porkbun.com/api/json/v3/dns/editByNameType/example.com/A"
                 \o (IF ddSubdomain = "" THEN "" ELSE "/" \o ddSubdomain)
        /\ TheCall(calls, "write").content = TheCall(calls, "ping").result[1]

C2_Witness ==
    /\ pc = "done" /\ exit = "updated"
    /\ ddSubdomain = "www"
    /\ printRecords # "" /\ Len(records) > 0
    /\ CountCalls(calls, "write") = 1
    /\ TheCall(calls, "write").content = "5.6.7.8"

\* C3 as stated: whatever the environment, the second of two successive runs
\* makes no write call.
C3_SecondRunNeverWrites ==
    run >= 2 => ~HasCall(calls, "write")

\* C3 amended: a run after the first makes a write call only if the run
\* before it made one too and that write is not visible to it: the name does
\* not resolve to the public IP and the snapshot holds no such A record,
\* because the write failed or matched no record of the provider, or because
\* the resolver still serves the old addresses and no snapshot of the
\* provider's records was obtained (-print not set, or a retrieve answered
\* without records).
C3_SecondRunWritesOnlyIfFirstWriteInvisible ==
    (run >= 2 /\ HasCall(calls, "write")) =>
        /\ HasCall(prevCalls, "write")
        /\ ~Resolved(calls, currentIP)
        /\ ~HoldsARecord(records, currentIP)
        /\ \/ ~TheCall(prevCalls, "write").ok
           \/ editKind # "success"
           \/ ~\E i \in 1..Len(provider) :
                  provider[i].Type = "A" /\ provider[i].Name = TargetName
           \/ /\ printRecords = "" \/ retrKind = "error"
              /\ TheCall(calls, "lookup").result = TheCall(prevCalls, "lookup").result

C3_Witness ==
    /\ run = 2 /\ pc = "done"
    /\ HasCall(prevCalls, "write") /\ TheCall(prevCalls, "write").ok
    /\ editKind = "success"
    /\ exit = "record-exists"
    /\ ~HasCall(calls, "write")

\* C4: a run whose ping returned a string that is not a syntactically valid
\* IPv4 address never calls EditAllA.
C4_InvalidIPNeverWritten ==
    HasCall(calls, "write") => IsDottedQuad(currentIP)

\* C5: when the check URL is not configured or unreachable and ping returned
\* an IP that equals one of the resolved addresses, the run makes no write
\* call and ends as a no-op.
C5_ResolvedIPIsNoOp ==
    (/\ ddCheckURL = "" \/ checkKind = "transport"
     /\ HasCall(calls, "ping") /\ TheCall(calls, "ping").ok
     /\ HasCall(calls, "lookup") /\ TheCall(calls, "lookup").ok
     /\ Resolved(calls, TheCall(calls, "ping").result[1]))
    =>
        /\ ~HasCall(calls, "write")
        /\ pc = "done" /\ exit = "dns-match"

C5_Witness ==
    /\ pc = "done" /\ exit = "dns-match"
    /\ ddCheckURL # "" /\ checkKind = "transport"
    /\ HasCall(calls, "check")
    /\ Len(TheCall(calls, "lookup").result) = 2
    /\ TheCall(calls, "lookup").result[2] = currentIP

\* C6: the calls of a run are made in the order health check, ping, DNS
\* lookup, write, each at most once.
C6_CallsInOrderAtMostOnce ==
    \A i, j \in 1..Len(calls) :
        i < j => Rank(calls[i].op) < Rank(calls[j].op)

C6_Witness ==
    /\ pc = "done"
    /\ HasCall(calls, "check") /\ HasCall(calls, "ping")
    /\ HasCall(calls, "lookup") /\ HasCall(calls, "write")
    /\ ~TheCall(calls, "write").ok

\* C7: recordExists(R, type, name, content) is true exactly when some record
\* of R has that Type, that Name and that Content, compared as strings.
C7_RecordExistsIffSomeRecordMatches ==
    reOut.done =>
        (reOut.value <=>
            \E i \in 1..Len(reIn.records) :
                /\ reIn.records[i].Type = reIn.typ
                /\ reIn.records[i].Name = reIn.name
                /\ reIn.records[i].Content = reIn.content)

C7_Witness ==
    /\ reOut.done /\ reOut.value
    /\ Len(reIn.records) = 2
    /\ reIn.records[1].Type # reIn.typ
    /\ reIn.records[1].Name = reIn.name
    /\ reIn.records[1].Content = reIn.content

\* C8: a failed ping ends the run fatally with no lookup and no write; a
\* failed lookup ends it fatally with no write; a failed write ends it
\* fatally after that one write call; a failed health check (no response)
\* is not fatal and the ping follows it.
C8_ErrorTiers ==
    /\ (HasCall(calls, "ping") /\ pingKind \in {"transport", "status500", "badjson"}) =>
          /\ pc = "done" /\ exit = "fatal-ping"
          /\ ~HasCall(calls, "lookup") /\ ~HasCall(calls, "write")
    /\ (HasCall(calls, "lookup") /\ ~TheCall(calls, "lookup").ok) =>
          /\ pc = "done" /\ exit = "fatal-lookup"
          /\ ~HasCall(calls, "write")
    /\ (HasCall(calls, "write") /\ editKind \in {"transport", "status500", "badjson"}) =>
          /\ pc = "done" /\ exit = "fatal-write"
          /\ CountCalls(calls, "write") = 1
    /\ (HasCall(calls, "check") /\ checkKind \in {"transport", "301-badloc"}) =>
          /\ exit # "fatal-check-request"
          /\ pc = "ping" \/ HasCall(calls, "ping")

C8_Witness ==
    /\ pc = "done" /\ exit = "fatal-ping"
    /\ pingKind = "status500"
    /\ HasCall(calls, "check") /\ checkKind = "transport"

\* C9: the name looked up is the domain when the subdomain is empty and
\* subdomain.domain otherwise; a run that got past the DNS comparison ends
\* at the known-records exit exactly when its snapshot holds an A record of
\* that fully-qualified name with the current IP as content; a run that
\* fetched no snapshot never takes that exit.
C9_KnownRecordsUseFullName ==
    /\ HasCall(calls, "lookup") => TheCall(calls, "lookup").url = TargetName
    /\ (/\ HasCall(calls, "lookup") /\ TheCall(calls, "lookup").ok
        /\ ~Resolved(calls, currentIP))
       => (exit = "record-exists" <=> HoldsARecord(records, currentIP))
    /\ exit = "record-exists" => HasCall(calls, "lookup")
    /\ ~HasCall(calls, "retrieve") => exit # "record-exists"

C9_Witness ==
    /\ pc = "done" /\ exit = "record-exists"
    /\ ddSubdomain = "www"
    /\ run = 1

\* C10: a remote operation counts as successful only when the response has
\* HTTP status 200 and its status field holds the success value: the run
\* goes on with a ping result as the current IP, and reports the A record as
\* updated, only for such a response.
C10_SuccessNeedsStatusField ==
    /\ (HasCall(calls, "ping") /\ pc \in {"lookup", "write"}) => pingKind = "success"
    /\ exit = "updated" => editKind = "success"

====
